---- MODULE Spec2Model ----
(***************************************************************************)
(* Model of xmcl-runtime/network/pluginNetworkInterface.ts: the download   *)
(* agent's retry decision, the settings bridge (max sockets, proxy URL,    *)
(* proxy enabled), the live connection cap patched onto every pool, the    *)
(* idle reaper armed by drain events and destroyPool.                      *)
(*                                                                         *)
(* Three specifications share the module:                                  *)
(*   SpecRetry   the retry callback, its inputs drawn in the initial state *)
(*   SpecConfig  the settings bridge                                       *)
(*   Spec        pools, requests, the reaper, destroyPool and the cap      *)
(*   SpecCalls   destroyPool calls overlapping each other under traffic    *)
(***************************************************************************)
EXTENDS Integers, Sequences, FiniteSets

VARIABLES
    \* ---- retry callback ----
    rIn,            \* err / state / opts of the retry call under evaluation
    rStats,         \* what `clients.get(origin)?.stats` evaluates to
    nowMs,          \* Date.now() at the evaluation
    rPc,            \* "ready" | "waiting" (timer armed) | "done"
    rOut,           \* the decision taken: [retry, wait]
    cbArgs,         \* arguments cb was called with, in order
    \* ---- settings bridge ----
    cfgPc,          \* "boot" before registry.get(kSettings) resolves, then "subscribed"
    settings,       \* the settings state object: maxSockets, httpProxy, httpProxyEnabled
    globalProxyHttps, \* process.env.HTTPS_PROXY || process.env.https_proxy
    maxConnection,  \* let maxConnection
    proxyControl,   \* ProxySettingController: [url, enabled]
    appProxy,       \* last value handed to app.setProxy
    lastWarn,       \* the offending value of the last logger.warn, "" when none
    \* ---- pools, reaper, destroyPool ----
    clients,        \* downloadProxy.agent[kClients]: origin -> pool id, 0 when no entry
    pools,          \* the Pool objects alive, by id
    calls,          \* the destroyPool invocations, by slot
    reapers,        \* the pending 60 s timers armed by drain events
    nArmed,         \* number of reaper timers armed so far
    ev              \* what the step just taken was, for the steps the properties speak of

retryVars == <<rIn, rStats, nowMs, rPc, rOut, cbArgs>>
configVars == <<cfgPc, settings, globalProxyHttps, maxConnection, proxyControl, appProxy, lastWarn>>
poolVars == <<clients, pools, calls, reapers, nArmed, ev>>
vars == <<retryVars, configVars, poolVars>>

(***************************************************************************)
(* Bounds of the model                                                     *)
(***************************************************************************)
MaxStat == 1            \* each pool statistic read by the retry callback is in 0..MaxStat
MaxCounter == 4         \* attempt counters 1..MaxCounter
MaxRetriesBound == 3    \* maxRetries in 0..MaxRetriesBound
MaxPools == 2           \* Pool objects alive at the same time
MaxWork == 3            \* requests outstanding on one pool
MaxCalls == 1           \* destroyPool invocations in a run
MaxTimers == 1          \* reaper timers armed in a run
MaxRacers == 2          \* destroyPool invocations in a run of SpecCalls

(***************************************************************************)
(* JavaScript numbers: a value is a number or NaN.                         *)
(***************************************************************************)
Num(v) == [nan |-> FALSE, n |-> v]
NaN == [nan |-> TRUE, n |-> 0]

\* mutant: a zero header delay also overrides the backoff
GtZeroOrEqual(x) == ~x.nan /\ x.n >= 0

\* x > 0 in JavaScript: false for NaN
GtZero(x) == ~x.nan /\ x.n > 0

Min(a, b) == IF a <= b THEN a ELSE b

RECURSIVE Pow(_, _)
Pow(b, e) == IF e <= 0 THEN 1 ELSE b * Pow(b, e - 1)

(***************************************************************************)
(* retry-after header values: absent, a numeric string (seconds), or an    *)
(* HTTP date (the instant it denotes, in ms).                              *)
(***************************************************************************)
HdrAbsent == [kind |-> "absent", v |-> 0]
HdrNum(s) == [kind |-> "num", v |-> s]
HdrDate(t) == [kind |-> "date", v |-> t]

\* Number(retryAfterHeader): a numeric string converts, a date string is NaN
NumberOf(h) == IF h.kind = "num" THEN Num(h.v) ELSE NaN

\* new Date(x).getTime(): x for a finite number, NaN for NaN
DateGetTime(x) == IF x.nan THEN NaN ELSE Num(x.n)

\* calculateRetryAfterHeader(retryAfter): called with the already converted
\* number, Date.now() read inside
calculateRetryAfterHeader(retryAfter, current) ==
    LET t == DateGetTime(retryAfter)
    IN  IF t.nan THEN NaN ELSE Num(t.n - current)

\* mutant: the numeric header taken as milliseconds
RetryAfterUnscaled(h, current) ==
    IF h.kind = "absent" THEN NaN
    ELSE LET n == NumberOf(h)
         IN  IF n.nan THEN calculateRetryAfterHeader(n, current)
             ELSE Num(n.n)

\* lines 144-150: the header delay in ms; undefined (absent) compares as NaN
RetryAfterMillis(h, current) ==
    IF h.kind = "absent" THEN NaN
    ELSE LET n == NumberOf(h)
         IN  IF n.nan THEN calculateRetryAfterHeader(n, current)
             ELSE Num(n.n * 1000)

\* mutant: the backoff not clamped to maxTimeout
BackoffUnclamped(in) == in.minTimeout * Pow(in.timeoutFactor, in.counter - 1)

\* lines 152-155
Backoff(in) ==
    Min(in.minTimeout * Pow(in.timeoutFactor, in.counter - 1), in.maxTimeout)

RetryTimeout(in, current) ==
    LET ra == RetryAfterMillis(in.retryAfter, current)
    IN  IF GtZero(ra) THEN Min(ra.n, in.maxTimeout) ELSE Backoff(in)

(***************************************************************************)
(* The checks of the retry callback, in the order of the code.             *)
(***************************************************************************)
NoStats == [present |-> FALSE, connected |-> 0, pending |-> 0, running |-> 0,
            queued |-> 0, free |-> 0]

\* mutant: the running count left out of the test
StatsAllZeroButRunning(st) ==
    \/ ~st.present
    \/ (st.connected = 0 /\ st.pending = 0 /\ st.queued = 0 /\ st.free = 0)

\* line 115: !stats?.connected && !stats?.pending && ... && !stats?.free
StatsAllZero(st) ==
    \/ ~st.present
    \/ (st.connected = 0 /\ st.pending = 0 /\ st.running = 0 /\ st.queued = 0 /\ st.free = 0)

\* line 78
FailNoRetry(in) == in.noRetry

\* mutant: only the connect-timeout is looked at by the code rule
CodeNotAllowedLax(in) ==
    /\ in.code = "UND_ERR_CONNECT_TIMEOUT"
    /\ in.code \notin in.errorCodes

\* lines 96-100: a code that is not undici's sentinel and not allowed
CodeNotAllowed(in) ==
    /\ in.code # "none"
    /\ in.code # "UND_ERR_REQ_RETRY"
    /\ in.code \notin in.errorCodes

\* lines 96-120: TRUE when the error-code rule fails the request
FailCode(in, st) ==
    /\ CodeNotAllowed(in)
    /\ \/ in.code # "UND_ERR_CONNECT_TIMEOUT"
       \/ ~in.hasOrigin
       \/ StatsAllZero(IF in.hasOrigin THEN st ELSE NoStats)

\* line 123
FailMethod(in) == in.methods.isArray /\ in.method \notin in.methods.items

\* lines 129-133
FailStatus(in) ==
    /\ in.statusCode # "none"
    /\ in.statusCodes.isArray
    /\ in.statusCode \notin in.statusCodes.items

\* mutant: off by one in the retry budget
FailCounterLate(in) == in.counter > in.maxRetries + 1

\* line 139
FailCounter(in) == in.counter > in.maxRetries

Fail == [retry |-> FALSE, wait |-> -1]

\* lines 75-158: the decision; wait is the delay handed to setTimeout
retry(in, st, current) ==
    IF FailNoRetry(in) THEN Fail
    ELSE IF FailCode(in, st) THEN Fail
    ELSE IF FailMethod(in) THEN Fail
    ELSE IF FailStatus(in) THEN Fail
    ELSE IF FailCounter(in) THEN Fail
    ELSE [retry |-> TRUE, wait |-> RetryTimeout(in, current)]

(***************************************************************************)
(* Inputs of the retry callback.  Two sweeps: one over everything the      *)
(* classification rules read (with a fixed timing configuration), one over *)
(* everything the wait computation reads (with errors that pass the rules  *)
(* or are stopped by the counter).                                         *)
(***************************************************************************)
Codes == {"none", "UND_ERR_REQ_RETRY", "ECONNRESET", "EPROTO", "UND_ERR_CONNECT_TIMEOUT"}
ErrorCodeSets == {{"ECONNRESET"}, {"ECONNRESET", "UND_ERR_CONNECT_TIMEOUT"}}
Methods == {"GET", "POST"}
MethodLists == {[isArray |-> TRUE, items |-> {"GET"}], [isArray |-> FALSE, items |-> {}]}
StatusCodes == {"none", "503", "404"}
StatusLists == {[isArray |-> TRUE, items |-> {"503"}], [isArray |-> FALSE, items |-> {}]}
Nows == {50000}
HeaderValues == {HdrAbsent, HdrNum(-1), HdrNum(0), HdrNum(5), HdrNum(20),
                 HdrDate(47000), HdrDate(52000)}
MinTimeouts == {0, 100, 500}
MaxTimeouts == {1000, 10000, 100000}
TimeoutFactors == {1, 2, 3}

StatsInputs ==
    [present : {TRUE}, connected : 0..MaxStat, pending : 0..MaxStat,
     running : 0..MaxStat, queued : 0..MaxStat, free : 0..MaxStat] \cup {NoStats}

\* the counter never passes maxRetries + 1: the evaluation at that value fails
CounterOk(in) == in.counter <= in.maxRetries + 1

ClassInputs ==
    {in \in [noRetry : BOOLEAN, code : Codes, errorCodes : ErrorCodeSets,
             hasOrigin : {TRUE}, method : Methods, methods : MethodLists,
             statusCode : StatusCodes, statusCodes : StatusLists,
             counter : 1..2, maxRetries : {1},
             retryAfter : {HdrAbsent}, minTimeout : {500}, maxTimeout : {10000},
             timeoutFactor : {2}] : CounterOk(in)}

NoOriginInputs ==
    {in \in [noRetry : {FALSE}, code : Codes, errorCodes : ErrorCodeSets,
             hasOrigin : {FALSE}, method : {"GET"}, methods : MethodLists,
             statusCode : {"none"}, statusCodes : StatusLists,
             counter : {1}, maxRetries : {1},
             retryAfter : {HdrAbsent}, minTimeout : {500}, maxTimeout : {10000},
             timeoutFactor : {2}] : CounterOk(in)}

TimingInputs ==
    {in \in [noRetry : {FALSE}, code : {"none", "ECONNRESET"}, errorCodes : {{"ECONNRESET"}},
             hasOrigin : {TRUE}, method : {"GET"}, methods : {[isArray |-> TRUE, items |-> {"GET"}]},
             statusCode : {"none", "503"}, statusCodes : {[isArray |-> TRUE, items |-> {"503"}]},
             counter : 1..MaxCounter, maxRetries : 0..MaxRetriesBound,
             retryAfter : HeaderValues, minTimeout : MinTimeouts, maxTimeout : MaxTimeouts,
             timeoutFactor : TimeoutFactors] : CounterOk(in)}

(***************************************************************************)
(* Settings bridge                                                         *)
(***************************************************************************)
DefaultMaxConnection == 64

ProxyStrings == {"", "http://p1:8080", "http://p2:8080", "not a url"}
EnvProxies == {"", "http://env:3128"}
MaxSocketsValues == {0, 1, 2}

\* new URL(s): throws on a string that is not a URL, otherwise a URL object
\* whose href is the normalised string
ParseURL(s) ==
    CASE s = "http://p1:8080" -> [ok |-> TRUE, href |-> "http://p1:8080/"]
      [] s = "http://p2:8080" -> [ok |-> TRUE, href |-> "http://p2:8080/"]
      [] s = "http://env:3128" -> [ok |-> TRUE, href |-> "http://env:3128/"]
      [] OTHER -> [ok |-> FALSE, href |-> ""]

\* a || b on strings: the empty string is falsy
OrElse(a, b) == IF a # "" THEN a ELSE b

\* ProxySettingController.setProxy / setProxyEnabled
SetProxy(pc, url) == [pc EXCEPT !.url = url.href]
SetProxyEnabled(pc, e) == [pc EXCEPT !.enabled = e]

\* mutant: the value of the setting is taken as it is
CapOfRaw(val) == val

\* lines 27 and 40
CapOf(val) == IF val > 0 THEN val ELSE DefaultMaxConnection

(***************************************************************************)
(* Pools (undici Pool behind downloadProxy.agent), one request per         *)
(* connection at a time.  A pool counts its client objects by state:       *)
(*   nd idle and disconnected, ni idle and connected, nr busy with a       *)
(*   request (from dispatch to its end, connecting included).              *)
(***************************************************************************)
IdleDelay == 60000
CloseDeadline == 500
EarlySteps == {59000}   \* passages of time that end before an idle check is due

Origins == {"a"}
PoolIds == 1..MaxPools
CallIds == DOMAIN calls

FreePool == [st |-> "free", origin |-> "-", nd |-> 0, ni |-> 0, nr |-> 0,
             queued |-> 0, needDrain |-> FALSE]
\* a destroyPool invocation: "unused" before it is made, "racing" while it
\* awaits the race, "destroying" while it awaits pool.destroy(), then "spent"
UnusedCall == [pc |-> "unused", origin |-> "-", pool |-> 0, left |-> 0]
SpentCall == [pc |-> "spent", origin |-> "-", pool |-> 0, left |-> 0]

\* the record of the step just taken: the end of a destroyPool call, a reaper
\* check (hit: a request came while the timer was pending; pool: the entry
\* found, 0 for none; zero: all five counts were zero), or a request;
\* thrown: the operation ended by rejecting to its caller
NoEvent == [kind |-> "none", origin |-> "-", outcome |-> "-", hit |-> FALSE, pool |-> 0,
            zero |-> FALSE, thrown |-> FALSE]
CallEnd(o, outcome) == [NoEvent EXCEPT !.kind = "destroyPool", !.origin = o, !.outcome = outcome]
CheckEnd(o, outcome, hit, p, zero) ==
    [kind |-> "check", origin |-> o, outcome |-> outcome, hit |-> hit, pool |-> p, zero |-> zero,
     thrown |-> FALSE]
RequestEnd(o, outcome, p) ==
    [NoEvent EXCEPT !.kind = "request", !.origin = o, !.outcome = outcome, !.pool = p]

NClients(q) == q.nd + q.ni + q.nr
Work(q) == q.nr + q.queued

\* mutant: the statistics count requests only, not connections
StatsRequestsOnly(q) ==
    [present |-> TRUE, connected |-> 0, free |-> 0,
     pending |-> q.queued, queued |-> q.queued, running |-> q.nr,
     size |-> q.queued + q.nr]

\* pool.stats
Stats(q) ==
    [present |-> TRUE, connected |-> q.ni + q.nr, free |-> q.ni,
     pending |-> q.queued, queued |-> q.queued, running |-> q.nr,
     size |-> q.queued + q.nr]

\* mutant: the pool keeps the cap it was built with by default
PoolConnectionsFrozen(q) == DefaultMaxConnection

\* patchIfPool: the pool's connections property is a getter on maxConnection
PoolConnections(q) == maxConnection

\* no client can take a request and no client may be added
Saturated(q) == q.ni + q.nd = 0 /\ NClients(q) >= PoolConnections(q)

\* mutant: a pool without idle client always opens a new one
DispatchResultsUncapped(q) ==
    IF q.ni + q.nd > 0
    THEN {[q EXCEPT !.ni = @ - 1, !.nr = @ + 1] : x \in {1} \cap {n \in {1} : q.ni > 0}}
         \cup {[q EXCEPT !.nd = @ - 1, !.nr = @ + 1] : x \in {1} \cap {n \in {1} : q.nd > 0}}
    ELSE {[q EXCEPT !.nr = @ + 1]}

\* Pool dispatch: an idle client, else a new client below the cap, else the queue
DispatchResults(q) ==
    IF q.ni + q.nd > 0
    THEN {[q EXCEPT !.ni = @ - 1, !.nr = @ + 1] : x \in {1} \cap {n \in {1} : q.ni > 0}}
         \cup {[q EXCEPT !.nd = @ - 1, !.nr = @ + 1] : x \in {1} \cap {n \in {1} : q.nd > 0}}
    ELSE IF NClients(q) < PoolConnections(q)
         THEN {[q EXCEPT !.nr = @ + 1]}
         ELSE {[q EXCEPT !.queued = @ + 1, !.needDrain = TRUE]}

DispatchKind(q, r) ==
    IF r.queued > q.queued THEN "queued"
    ELSE IF NClients(r) > NClients(q) THEN "opened" ELSE "reused"

AfterDispatch(q) == [q EXCEPT !.needDrain = q.needDrain \/ Saturated(q)]

\* mutant: close() aborts the outstanding requests
PoolCloseAborting(q) ==
    IF q.st = "open"
    THEN [q EXCEPT !.st = "closing", !.nd = q.nd + q.nr, !.nr = 0, !.queued = 0]
    ELSE q

\* pool.close(): an open pool starts closing; a closing pool is joined; on a
\* destroyed pool the promise rejects and nothing changes
PoolClose(q) == IF q.st = "open" THEN [q EXCEPT !.st = "closing"] ELSE q

\* pool.destroy(), and the end of a graceful close: outstanding work is dropped
PoolDestroyed(q) ==
    [q EXCEPT !.st = "destroyed", !.nd = NClients(q), !.ni = 0, !.nr = 0,
              !.queued = 0, !.needDrain = FALSE]

\* mutant: the entry is kept
MapKeep(cl, o) == cl

\* clients.delete(origin)
MapDelete(cl, o) == [cl EXCEPT ![o] = 0]

\* mutant: the pool counts as idle although connections are still open
PoolIdleIgnoringConnected(q) ==
    LET st == Stats(q)
    IN  st.pending = 0 /\ st.running = 0 /\ st.queued = 0

\* line 217
PoolIdle(q) == StatsAllZero(Stats(q))

\* the five counts the reaper and the retry callback look at
CountsZero(q) == q.ni = 0 /\ q.nr = 0 /\ q.queued = 0

\* A pool that neither the mapping nor a destroyPool call refers to cannot be
\* reached from this code any more; the model stops following it, except
\* while its close() is still completing.
Referenced(p, cl, cs) ==
    \/ \E o \in Origins : cl[o] = p
    \/ \E c \in CallIds : cs[c].pc \in {"racing", "destroying"} /\ cs[c].pool = p

Gc(ps, cl, cs) ==
    [p \in PoolIds |->
        IF \/ Referenced(p, cl, cs)
           \/ ps[p].st = "closing"
        THEN ps[p] ELSE FreePool]

PoolsIdle ==
    /\ clients = [o \in Origins |-> 0]
    /\ pools = [p \in PoolIds |-> FreePool]
    /\ calls = [c \in 1..MaxCalls |-> UnusedCall]
    /\ reapers = {}
    /\ nArmed = 0
    /\ ev = NoEvent

RetryIdle ==
    /\ rIn = [noRetry |-> FALSE, code |-> "none", errorCodes |-> {"ECONNRESET"},
              hasOrigin |-> TRUE, method |-> "GET",
              methods |-> [isArray |-> TRUE, items |-> {"GET"}],
              statusCode |-> "none", statusCodes |-> [isArray |-> TRUE, items |-> {"503"}],
              counter |-> 1, maxRetries |-> 1, retryAfter |-> HdrAbsent,
              minTimeout |-> 500, maxTimeout |-> 10000, timeoutFactor |-> 2]
    /\ rStats = NoStats
    /\ nowMs = 50000
    /\ rPc = "done"
    /\ rOut = Fail
    /\ cbArgs = <<>>

ConfigBoot ==
    /\ cfgPc = "boot"
    /\ maxConnection = DefaultMaxConnection
    /\ proxyControl = [url |-> "", enabled |-> FALSE]
    /\ appProxy = "unset"
    /\ lastWarn = ""

ConfigIdle ==
    /\ ConfigBoot
    /\ settings = [maxSockets |-> 0, httpProxy |-> "", httpProxyEnabled |-> FALSE]
    /\ globalProxyHttps = ""

(***************************************************************************)
(* SpecRetry: one evaluation of the retry callback                         *)
(***************************************************************************)
InitRetry ==
    /\ \/ rIn \in ClassInputs /\ rStats \in StatsInputs
       \/ rIn \in NoOriginInputs /\ rStats = NoStats
       \/ rIn \in TimingInputs /\ rStats = NoStats
    /\ nowMs \in Nows
    /\ rPc = "ready"
    /\ rOut = Fail
    /\ cbArgs = <<>>
    /\ ConfigIdle
    /\ PoolsIdle

\* lines 75-157: the callback runs; it either reports the error at once or
\* arms the timer
RetryInvoke ==
    /\ rPc = "ready"
    /\ LET d == retry(rIn, rStats, nowMs)
       IN  /\ rOut' = d
           /\ IF d.retry
              THEN rPc' = "waiting" /\ cbArgs' = cbArgs
              ELSE rPc' = "done" /\ cbArgs' = Append(cbArgs, "err")
    /\ UNCHANGED <<rIn, rStats, nowMs, configVars, poolVars>>

\* mutant: the timer fires the callback twice
RetryTimerFireTwice ==
    /\ rPc = "waiting"
    /\ rPc' = "done"
    /\ cbArgs' = Append(Append(cbArgs, "null"), "null")
    /\ UNCHANGED <<rIn, rStats, nowMs, rOut, configVars, poolVars>>

\* line 157: setTimeout(() => cb(null), retryTimeout) fires
RetryTimerFire ==
    /\ rPc = "waiting"
    /\ rPc' = "done"
    /\ cbArgs' = Append(cbArgs, "null")
    /\ UNCHANGED <<rIn, rStats, nowMs, rOut, configVars, poolVars>>

NextRetry == RetryInvoke \/ RetryTimerFire

SpecRetry == InitRetry /\ [][NextRetry]_vars

(***************************************************************************)
(* SpecConfig: the settings bridge                                         *)
(***************************************************************************)
InitConfig ==
    /\ ConfigBoot
    /\ settings \in [maxSockets : MaxSocketsValues, httpProxy : ProxyStrings,
                     httpProxyEnabled : BOOLEAN]
    /\ globalProxyHttps \in EnvProxies
    /\ RetryIdle
    /\ PoolsIdle

\* lines 26-38: registry.get(kSettings) resolves
SettingsLoaded ==
    /\ cfgPc = "boot"
    /\ cfgPc' = "subscribed"
    /\ maxConnection' = CapOf(settings.maxSockets)
    /\ LET proxy == OrElse(settings.httpProxy, globalProxyHttps)
           en == SetProxyEnabled(proxyControl, settings.httpProxyEnabled)
           u == ParseURL(proxy)
       IN  IF proxy = ""
           THEN proxyControl' = en /\ UNCHANGED <<appProxy, lastWarn>>
           ELSE IF u.ok
                THEN proxyControl' = SetProxy(en, u) /\ appProxy' = proxy /\ UNCHANGED lastWarn
                ELSE proxyControl' = en /\ lastWarn' = proxy /\ UNCHANGED appProxy
    /\ UNCHANGED <<settings, globalProxyHttps>>

\* lines 39-41
maxSocketsSet(val) ==
    /\ cfgPc = "subscribed"
    /\ settings' = [settings EXCEPT !.maxSockets = val]
    /\ maxConnection' = CapOf(val)
    /\ UNCHANGED <<cfgPc, globalProxyHttps, proxyControl, appProxy, lastWarn>>

\* lines 42-49
httpProxySet(p) ==
    /\ cfgPc = "subscribed"
    /\ settings' = [settings EXCEPT !.httpProxy = p]
    /\ appProxy' = p
    /\ LET u == ParseURL(p)
       IN  IF u.ok
           THEN proxyControl' = SetProxy(proxyControl, u) /\ UNCHANGED lastWarn
           ELSE lastWarn' = p /\ UNCHANGED proxyControl
    /\ UNCHANGED <<cfgPc, globalProxyHttps, maxConnection>>

\* lines 50-53
httpProxyEnabledSet(e) ==
    /\ cfgPc = "subscribed"
    /\ settings' = [settings EXCEPT !.httpProxyEnabled = e]
    /\ proxyControl' = SetProxyEnabled(proxyControl, e)
    /\ appProxy' = IF e THEN OrElse(OrElse(settings.httpProxy, globalProxyHttps), "") ELSE ""
    /\ UNCHANGED <<cfgPc, globalProxyHttps, maxConnection, lastWarn>>

NextConfig ==
    \/ SettingsLoaded /\ UNCHANGED <<retryVars, poolVars>>
    \/ \E val \in MaxSocketsValues : maxSocketsSet(val) /\ UNCHANGED <<retryVars, poolVars>>
    \/ \E p \in ProxyStrings : httpProxySet(p) /\ UNCHANGED <<retryVars, poolVars>>
    \/ \E e \in BOOLEAN : httpProxyEnabledSet(e) /\ UNCHANGED <<retryVars, poolVars>>

SpecConfig == InitConfig /\ [][NextConfig]_vars

(***************************************************************************)
(* Spec: requests, connections, the idle reaper, destroyPool and the cap   *)
(***************************************************************************)
CapChoices == {0, 1}

Init ==
    /\ cfgPc = "subscribed"
    /\ settings \in [maxSockets : CapChoices, httpProxy : {""}, httpProxyEnabled : {FALSE}]
    /\ maxConnection = CapOf(settings.maxSockets)
    /\ globalProxyHttps = ""
    /\ proxyControl = [url |-> "", enabled |-> FALSE]
    /\ appProxy = "unset"
    /\ lastWarn = ""
    /\ RetryIdle
    /\ PoolsIdle

FreeSlots == {p \in PoolIds : pools[p].st = "free"}
LowestFree == CHOOSE p \in FreeSlots : \A r \in FreeSlots : p <= r

\* a request to the origin was dispatched while the timer was pending
MarkHit(rs, o) == {IF t.origin = o THEN [t EXCEPT !.hit = TRUE] ELSE t : t \in rs}

\* lines 160-168 and Agent.dispatch: the pool of the origin is looked up, built
\* and patched when there is none, and takes the request
Request(o) ==
    /\ IF clients[o] = 0
       THEN /\ FreeSlots # {}
            /\ LET p == LowestFree
                   q == [FreePool EXCEPT !.st = "open", !.origin = o, !.nr = 1]
               IN  /\ clients' = [clients EXCEPT ![o] = p]
                   /\ pools' = [pools EXCEPT ![p] = AfterDispatch(q)]
                   /\ ev' = RequestEnd(o, "opened", p)
       ELSE LET p == clients[o]
            IN  /\ pools[p].st = "open"
                /\ Work(pools[p]) < MaxWork
                /\ \E q \in DispatchResults(pools[p]) :
                       /\ pools' = [pools EXCEPT ![p] = AfterDispatch(q)]
                       /\ ev' = RequestEnd(o, DispatchKind(pools[p], q), p)
                /\ clients' = clients
    /\ reapers' = MarkHit(reapers, o)
    /\ UNCHANGED <<calls, nArmed, retryVars, configVars>>

\* a request ends: "ok" (the response is read, the connection kept) or
\* "error" (the connection fails or is lost).  The freed
\* client takes the next queued request; with an empty queue a saturated
\* pool emits drain, and the handler of lines 210-231 arms a timer.
Finish(p, kind) ==
    LET q == pools[p]
        q1 == IF kind = "ok" THEN [q EXCEPT !.nr = @ - 1, !.ni = @ + 1]
              ELSE [q EXCEPT !.nr = @ - 1, !.nd = @ + 1]
        q2 == IF q1.queued > 0
              THEN IF kind = "ok"
                   THEN [q1 EXCEPT !.queued = @ - 1, !.ni = @ - 1, !.nr = @ + 1]
                   ELSE [q1 EXCEPT !.queued = @ - 1, !.nd = @ - 1, !.nr = @ + 1]
              ELSE [q1 EXCEPT !.needDrain = FALSE]
        drain == q1.queued = 0 /\ q1.needDrain
    IN  /\ q.st \in {"open", "closing"}
        /\ q.nr > 0
        /\ IF drain
           THEN /\ nArmed < MaxTimers
                /\ nArmed' = nArmed + 1
                /\ reapers' = reapers \cup {[origin |-> q.origin, left |-> IdleDelay, hit |-> FALSE]}
           ELSE UNCHANGED <<reapers, nArmed>>
        /\ pools' = Gc([pools EXCEPT ![p] = q2], clients, calls)
        /\ ev' = NoEvent
        /\ UNCHANGED <<clients, calls, retryVars, configVars>>

\* an idle connection is closed by the peer or by the keep-alive timeout
Disconnect(p) ==
    /\ pools[p].st \in {"open", "closing"}
    /\ pools[p].ni > 0
    /\ pools' = [pools EXCEPT ![p].ni = @ - 1, ![p].nd = @ + 1]
    /\ ev' = NoEvent
    /\ UNCHANGED <<clients, calls, reapers, nArmed, retryVars, configVars>>

\* lines 211-230: the check armed by a drain event runs
ReaperCheck(t) ==
    LET o == t.origin
        p == clients[o]
        evict == p # 0 /\ PoolIdle(pools[p])
        cl == IF evict THEN MapDelete(clients, o) ELSE clients
        ps == IF evict THEN [pools EXCEPT ![p] = PoolClose(@)] ELSE pools
    IN  /\ t \in reapers
        /\ t.left = 0
        /\ reapers' = reapers \ {t}
        /\ clients' = cl
        /\ pools' = Gc(ps, cl, calls)
        /\ ev' = CheckEnd(o, IF evict THEN "evicted" ELSE "kept", t.hit, p,
                          p # 0 /\ CountsZero(pools[p]))
        /\ UNCHANGED <<calls, nArmed, retryVars, configVars>>

\* lines 235-239: destroyPool(origin) is called.  With no entry the race
\* resolves at once and the delete is a no-op; on a destroyed pool close()
\* rejects, the await of line 239 throws, line 242 is not reached and the
\* call rejects; otherwise the call waits for the race.
destroyPool(c, o) ==
    LET p == clients[o]
    IN  /\ calls[c].pc = "unused"
        /\ \A b \in CallIds : b < c => calls[b].pc # "unused"
        /\ IF p = 0
           THEN /\ calls' = [calls EXCEPT ![c] = SpentCall]
                /\ clients' = MapDelete(clients, o)
                /\ pools' = pools
                /\ ev' = CallEnd(o, "noentry")
           ELSE IF pools[p].st = "destroyed"
           THEN /\ calls' = [calls EXCEPT ![c] = SpentCall]
                /\ UNCHANGED <<clients, pools>>
                /\ ev' = [CallEnd(o, "rejected") EXCEPT !.thrown = TRUE]
           ELSE /\ calls' = [calls EXCEPT ![c] = [pc |-> "racing", origin |-> o, pool |-> p,
                                                  left |-> CloseDeadline]]
                /\ pools' = [pools EXCEPT ![p] = PoolClose(@)]
                /\ clients' = clients
                /\ ev' = NoEvent
        /\ UNCHANGED <<reapers, nArmed, retryVars, configVars>>

Racing(p) == {c \in CallIds : calls[c].pc = "racing" /\ calls[c].pool = p}

RECURSIVE DeleteAll(_, _)
DeleteAll(cl, os) ==
    IF os = {} THEN cl
    ELSE LET o == CHOOSE x \in os : TRUE IN DeleteAll(MapDelete(cl, o), os \ {o})

\* the graceful close of a pool completes: every call waiting on it sees
\* closed = true and goes on to line 242
CloseDone(p) ==
    LET cs == [c \in CallIds |-> IF c \in Racing(p) THEN SpentCall ELSE calls[c]]
        cl == DeleteAll(clients, {calls[c].origin : c \in Racing(p)})
    IN  /\ \/ pools[p].st = "closing" /\ Work(pools[p]) = 0
           \/ pools[p].st = "destroyed" /\ Racing(p) # {}
        /\ calls' = cs
        /\ clients' = cl
        /\ pools' = Gc([pools EXCEPT ![p] = PoolDestroyed(@)], cl, cs)
        /\ ev' = IF Racing(p) # {} THEN CallEnd(pools[p].origin, "graceful") ELSE NoEvent
        /\ UNCHANGED <<reapers, nArmed, retryVars, configVars>>

\* lines 239-240: timeout(500) wins the race: closed = false, pool.destroy()
DeadlineFires(c) ==
    /\ calls[c].pc = "racing"
    /\ calls[c].left = 0
    /\ calls' = [calls EXCEPT ![c].pc = "destroying"]
    /\ pools' = [pools EXCEPT ![calls[c].pool] = PoolDestroyed(@)]
    /\ ev' = NoEvent
    /\ UNCHANGED <<clients, reapers, nArmed, retryVars, configVars>>

\* lines 240-242: pool.destroy() has resolved
DestroyDone(c) ==
    LET cs == [calls EXCEPT ![c] = SpentCall]
        cl == MapDelete(clients, calls[c].origin)
    IN  /\ calls[c].pc = "destroying"
        /\ calls' = cs
        /\ clients' = cl
        /\ pools' = Gc(pools, cl, cs)
        /\ ev' = CallEnd(calls[c].origin, "forced")
        /\ UNCHANGED <<reapers, nArmed, retryVars, configVars>>

\* time passes, never beyond a timer that is due
TimerLefts ==
    {calls[c].left : c \in {x \in CallIds : calls[x].pc = "racing"}}
    \cup {t.left : t \in reapers}

Tick(d) ==
    /\ d > 0
    /\ TimerLefts # {}
    /\ \A l \in TimerLefts : d <= l
    /\ calls' = [c \in CallIds |->
                   IF calls[c].pc = "racing" THEN [calls[c] EXCEPT !.left = @ - d] ELSE calls[c]]
    /\ reapers' = {[t EXCEPT !.left = @ - d] : t \in reapers}
    /\ ev' = NoEvent
    /\ UNCHANGED <<clients, pools, nArmed, retryVars, configVars>>

\* the max-sockets notification while pools are alive
CapChange(val) ==
    /\ maxSocketsSet(val)
    /\ ev' = NoEvent
    /\ UNCHANGED <<clients, pools, calls, reapers, nArmed, retryVars>>

Next ==
    \/ \E o \in Origins : Request(o)
    \/ \E p \in PoolIds, kind \in {"ok", "error"} : Finish(p, kind)
    \/ \E p \in PoolIds : Disconnect(p)
    \/ \E t \in reapers : ReaperCheck(t)
    \/ \E c \in CallIds, o \in Origins : destroyPool(c, o)
    \/ \E p \in PoolIds : CloseDone(p)
    \/ \E c \in CallIds : DeadlineFires(c)
    \/ \E c \in CallIds : DestroyDone(c)
    \/ \E d \in TimerLefts \cup EarlySteps : Tick(d)
    \/ \E val \in CapChoices : CapChange(val)

Spec == Init /\ [][Next]_vars

(***************************************************************************)
(* SpecCalls: several destroyPool calls on an origin overlap each other    *)
(* and the traffic.  The cap stays at its default, no pool saturates, so   *)
(* no drain event arms the reaper.                                         *)
(***************************************************************************)
InitCalls ==
    /\ cfgPc = "subscribed"
    /\ settings = [maxSockets |-> 0, httpProxy |-> "", httpProxyEnabled |-> FALSE]
    /\ maxConnection = CapOf(settings.maxSockets)
    /\ globalProxyHttps = ""
    /\ proxyControl = [url |-> "", enabled |-> FALSE]
    /\ appProxy = "unset"
    /\ lastWarn = ""
    /\ RetryIdle
    /\ clients = [o \in Origins |-> 0]
    /\ pools = [p \in PoolIds |-> FreePool]
    /\ calls = [c \in 1..MaxRacers |-> UnusedCall]
    /\ reapers = {}
    /\ nArmed = 0
    /\ ev = NoEvent

NextCalls ==
    \/ \E o \in Origins : Request(o)
    \/ \E p \in PoolIds, kind \in {"ok", "error"} : Finish(p, kind)
    \/ \E p \in PoolIds : Disconnect(p)
    \/ \E c \in CallIds, o \in Origins : destroyPool(c, o)
    \/ \E p \in PoolIds : CloseDone(p)
    \/ \E c \in CallIds : DeadlineFires(c)
    \/ \E c \in CallIds : DestroyDone(c)
    \/ \E d \in TimerLefts : Tick(d)

SpecCalls == InitCalls /\ [][NextCalls]_vars

(***************************************************************************)
(* Properties of the retry callback (checked under SpecRetry)              *)
(***************************************************************************)
Decided == rPc # "ready"

\* the error is one the code rule lets through without looking at the pool
RetryableError(in) ==
    /\ ~in.noRetry
    /\ in.code = "none" \/ in.code = "UND_ERR_REQ_RETRY" \/ in.code \in in.errorCodes

MethodAllowed(in) == in.methods.isArray => in.method \in in.methods.items
StatusAllowed(in) ==
    (in.statusCode # "none" /\ in.statusCodes.isArray) => in.statusCode \in in.statusCodes.items

\* the header delay the protocol means: seconds, or the date minus now
IntendedDelay(h, current) == IF h.kind = "num" THEN h.v * 1000 ELSE h.v - current

ExpBackoff(in) ==
    LET b == in.minTimeout * Pow(in.timeoutFactor, in.counter - 1)
    IN  IF b < in.maxTimeout THEN b ELSE in.maxTimeout

\* C3: a retryable error with counter <= maxRetries, an allowed method and
\* an allowed (or absent) status code is retried, with a wait in
\* 0..maxTimeout, whatever the retry-after header and the backoff settings.
C3_RetryableIsRetried ==
    (/\ Decided
     /\ RetryableError(rIn)
     /\ rIn.counter <= rIn.maxRetries
     /\ MethodAllowed(rIn)
     /\ StatusAllowed(rIn))
    => (rOut.retry /\ 0 <= rOut.wait /\ rOut.wait <= rIn.maxTimeout)

C3_Witness ==
    /\ rPc = "waiting"
    /\ RetryableError(rIn)
    /\ rIn.code = "ECONNRESET"
    /\ rIn.statusCode = "503"
    /\ rIn.counter = rIn.maxRetries
    /\ rIn.retryAfter = HdrNum(20)
    /\ rIn.maxTimeout = 10000
    /\ rOut = [retry |-> TRUE, wait |-> 10000]

\* C4: at counter = maxRetries + 1 the decision is to fail: the callback gets
\* the error and no timer is armed, whatever the other fields are.
C4_BudgetExhaustedFails ==
    (Decided /\ rIn.counter = rIn.maxRetries + 1)
    => (~rOut.retry /\ rPc = "done" /\ cbArgs = <<"err">>)

C4_Witness ==
    /\ rPc = "done"
    /\ rIn.counter = rIn.maxRetries + 1
    /\ RetryableError(rIn) /\ MethodAllowed(rIn) /\ StatusAllowed(rIn)
    /\ rIn.retryAfter = HdrNum(5)
    /\ cbArgs = <<"err">>

\* C5: a connect-timeout whose code is not in the allowed set passes the
\* error-code rule exactly when the origin's pool has a nonzero count among
\* connected, pending, running, queued, free; with no pool in the mapping or
\* all five zero the decision is to fail.
AnyNonzero(st) ==
    st.present /\ (st.connected > 0 \/ st.pending > 0 \/ st.running > 0 \/ st.queued > 0 \/ st.free > 0)

C5_ConnectTimeoutNeedsTraffic ==
    (/\ Decided
     /\ ~rIn.noRetry
     /\ rIn.code = "UND_ERR_CONNECT_TIMEOUT"
     /\ rIn.code \notin rIn.errorCodes)
    => IF rIn.hasOrigin /\ AnyNonzero(rStats)
       THEN rOut.retry <=> (MethodAllowed(rIn) /\ StatusAllowed(rIn) /\ rIn.counter <= rIn.maxRetries)
       ELSE ~rOut.retry /\ cbArgs = <<"err">>

C5_Witness ==
    /\ rPc = "waiting"
    /\ rIn.code = "UND_ERR_CONNECT_TIMEOUT"
    /\ rIn.code \notin rIn.errorCodes
    /\ rStats = [present |-> TRUE, connected |-> 0, pending |-> 0, running |-> 1,
                 queued |-> 0, free |-> 0]
    /\ rOut.retry

\* C6: a retry-after header that is an HTTP date in the future gives a wait
\* of (headerTime - now) ms clamped to maxTimeout.
C6_DateHeaderWait ==
    (/\ Decided
     /\ rOut.retry
     /\ rIn.retryAfter.kind = "date"
     /\ rIn.retryAfter.v > nowMs)
    => rOut.wait = Min(rIn.retryAfter.v - nowMs, rIn.maxTimeout)

\* C7: a retry-after header of s > 0 seconds gives a wait of
\* min(s * 1000, maxTimeout), whatever the counter, minTimeout and factor.
C7_NumericHeaderWait ==
    (/\ Decided
     /\ rOut.retry
     /\ rIn.retryAfter.kind = "num"
     /\ rIn.retryAfter.v > 0)
    => rOut.wait = (IF rIn.retryAfter.v * 1000 < rIn.maxTimeout
                    THEN rIn.retryAfter.v * 1000 ELSE rIn.maxTimeout)

C7_Witness ==
    /\ rPc = "waiting"
    /\ rIn.retryAfter = HdrNum(5)
    /\ rIn.maxTimeout = 10000
    /\ rIn.counter = 3 /\ rIn.minTimeout = 100 /\ rIn.timeoutFactor = 3
    /\ rOut.wait = 5000

\* C8: with no retry-after header, or a header whose delay is zero or
\* negative, the wait is min(minTimeout * timeoutFactor^(counter-1),
\* maxTimeout): only a strictly positive header delay overrides the backoff.
C8_BackoffFallback ==
    (/\ Decided
     /\ rOut.retry
     /\ \/ rIn.retryAfter.kind = "absent"
        \/ IntendedDelay(rIn.retryAfter, nowMs) <= 0)
    => rOut.wait = ExpBackoff(rIn)

C8_Witness ==
    /\ rPc = "waiting"
    /\ rIn.retryAfter = HdrNum(0)
    /\ rIn.minTimeout = 100 /\ rIn.timeoutFactor = 2 /\ rIn.counter = 3
    /\ rIn.maxTimeout = 100000
    /\ rOut.wait = 400

\* C15: an error whose code is neither the request-retry sentinel, nor in
\* the allowed set, nor the connect-timeout fails at once: the callback gets
\* the error and no timer is armed, even with the counter within maxRetries
\* and the method and status code allowed.
C15_ForeignCodeFails ==
    (/\ Decided
     /\ rIn.code \notin ({"none", "UND_ERR_REQ_RETRY", "UND_ERR_CONNECT_TIMEOUT"} \cup rIn.errorCodes))
    => (~rOut.retry /\ rPc = "done" /\ cbArgs = <<"err">>)

C15_Witness ==
    /\ rPc = "done"
    /\ rIn.code = "EPROTO"
    /\ ~rIn.noRetry
    /\ rIn.counter <= rIn.maxRetries
    /\ MethodAllowed(rIn) /\ StatusAllowed(rIn)
    /\ rIn.statusCode = "503"
    /\ AnyNonzero(rStats)
    /\ cbArgs = <<"err">>

\* C18: every invocation of the retry decision calls its callback exactly
\* once: at once with the error when the decision is to fail, or once with
\* no error when the timer fires; before the timer fires nothing is called,
\* and the callback is never called twice.
C18_CallbackExactlyOnce ==
    /\ Len(cbArgs) <= 1
    /\ rPc = "ready" => cbArgs = <<>>
    /\ rPc = "waiting" => (cbArgs = <<>> /\ rOut.retry)
    /\ rPc = "done" => cbArgs = (IF rOut.retry THEN <<"null">> ELSE <<"err">>)
    /\ (Decided /\ (rIn.noRetry \/ ~MethodAllowed(rIn) \/ ~StatusAllowed(rIn)
                     \/ rIn.counter > rIn.maxRetries))
       => cbArgs = <<"err">>

C18_Witness ==
    /\ rPc = "done"
    /\ rOut.retry
    /\ rOut.wait = 2000
    /\ rIn.retryAfter.kind = "date"
    /\ cbArgs = <<"null">>

(***************************************************************************)
(* Properties of the settings bridge (checked under SpecConfig)            *)
(***************************************************************************)
\* a step that delivers the string p as the proxy URL
DeliversProxy(p) ==
    \/ httpProxySet(p)
    \/ SettingsLoaded /\ OrElse(settings.httpProxy, globalProxyHttps) = p

\* C9: delivering an invalid proxy URL, at startup or by notification,
\* leaves the controller's URL and enabled flag and the application-level
\* proxy as they were.
C9_InvalidProxyKeepsState ==
    [][\A p \in ProxyStrings \ {""} :
         (~ParseURL(p).ok /\ DeliversProxy(p))
         => /\ proxyControl'.url = proxyControl.url
            /\ (httpProxySet(p) => proxyControl'.enabled = proxyControl.enabled)
            /\ appProxy' = appProxy]_vars

\* C16: after any sequence of notifications each piece of state reflects
\* the last update of its own stream: the cap is the last max-sockets value
\* when that is > 0 and 64 otherwise (so >= 1), the controller's flag is the
\* last proxy-enabled value, the controller's URL is the last valid proxy
\* URL (an invalid one leaves it, the other two streams never touch it), and
\* no notification changes the mapping or a pool.
C16_StreamsIndependent ==
    [][/\ cfgPc' = "subscribed"
          => /\ maxConnection' = (IF settings'.maxSockets > 0 THEN settings'.maxSockets ELSE 64)
             /\ maxConnection' >= 1
             /\ proxyControl'.enabled = settings'.httpProxyEnabled
             /\ ParseURL(settings'.httpProxy).ok
                => proxyControl'.url = ParseURL(settings'.httpProxy).href
       /\ \A p \in ProxyStrings :
            httpProxySet(p)
            => /\ ~ParseURL(p).ok => proxyControl'.url = proxyControl.url
               /\ proxyControl'.enabled = proxyControl.enabled
               /\ maxConnection' = maxConnection
       /\ \A val \in MaxSocketsValues : maxSocketsSet(val) => proxyControl' = proxyControl
       /\ \A e \in BOOLEAN :
            httpProxyEnabledSet(e)
            => (proxyControl'.url = proxyControl.url /\ maxConnection' = maxConnection)
       /\ clients' = clients /\ pools' = pools]_vars

C16_Witness ==
    /\ cfgPc = "subscribed"
    /\ settings.maxSockets = 0
    /\ maxConnection = DefaultMaxConnection
    /\ settings.httpProxy = "not a url"
    /\ lastWarn = "not a url"
    /\ proxyControl.url = "http://p2:8080/"
    /\ settings.httpProxyEnabled
    /\ proxyControl.enabled

\* C17: whenever the configured proxy URL is empty and the environment
\* provides a default proxy, the proxy in effect is the environment default:
\* the controller's URL is that default, and so is the application-level
\* proxy while the proxy is enabled.
C17_EnvDefaultInEffect ==
    (/\ cfgPc = "subscribed"
     /\ settings.httpProxy = ""
     /\ globalProxyHttps # "")
    => /\ proxyControl.url = ParseURL(globalProxyHttps).href
       /\ settings.httpProxyEnabled => appProxy = globalProxyHttps

(***************************************************************************)
(* Properties of destroyPool, the reaper and the cap (checked under Spec)  *)
(***************************************************************************)
\* C1: a destroyPool(origin) call ends with no entry for the origin in the
\* mapping, whether the close completed before the 500 ms deadline, hung
\* past it (the pool was force-destroyed), or there was no entry at all.
C1_DestroyPoolRemovesEntry ==
    (ev.kind = "destroyPool" /\ ev.outcome \in {"graceful", "forced", "noentry"})
    => clients[ev.origin] = 0

C1_Witness ==
    /\ ev.kind = "destroyPool"
    /\ ev.outcome = "forced"
    /\ clients[ev.origin] = 0

C10_LoweredCapStopsGrowth ==
    [][/\ maxConnection' # maxConnection => (pools' = pools /\ clients' = clients)
       /\ \A p \in PoolIds :
            NClients(pools'[p]) > NClients(pools[p])
            => NClients(pools[p]) < maxConnection]_vars

C10_Witness ==
    /\ ev.kind = "request"
    /\ ev.outcome = "queued"
    /\ pools[ev.pool].st = "open"
    /\ NClients(pools[ev.pool]) > maxConnection

C12_ForcedOnlyAtDeadline ==
    [][/\ \A c \in CallIds :
            LET p == calls[c].pool
                r == calls'[c].pool
            IN  /\ (calls[c].pc = "unused" /\ calls'[c].pc = "racing")
                   => (pools'[r].st = "closing" /\ Work(pools'[r]) = Work(pools[r]))
                /\ (calls[c].pc = "racing" /\ calls'[c].pc = "destroying")
                   => (calls[c].left = 0 /\ pools[p].st # "free" /\ pools'[p].st = "destroyed")
                /\ (calls[c].pc = "racing" /\ calls'[c].pc = "spent")
                   => (Work(pools[p]) = 0 \/ pools[p].st = "destroyed")
                /\ calls'[c].pc = "destroying" => calls[c].pc \in {"racing", "destroying"}
       /\ \A p \in PoolIds :
            (pools[p].st = "closing" /\ Work(pools[p]) > 0 /\ pools'[p].st # "closing")
            => \E c \in CallIds : /\ calls[c].pc = "racing" /\ calls[c].pool = p
                                  /\ calls[c].left = 0 /\ calls'[c].pc = "destroying"]_vars

C12_Witness ==
    \E c \in CallIds :
        /\ calls[c].pc = "destroying"
        /\ pools[calls[c].pool].st = "destroyed"
        /\ clients[calls[c].origin] = calls[c].pool

\* C14: a reaper check that finds a pool with a nonzero count among
\* connected, pending, running, queued, free (read at the check) closes
\* nothing and removes nothing: pools and mapping are as before the check.
C14_BusyPoolUntouched ==
    [][(ev'.kind = "check" /\ ev'.pool # 0 /\ ~ev'.zero)
       => (pools' = pools /\ clients' = clients /\ ev'.outcome = "kept")]_vars

C14_Witness ==
    /\ ev.kind = "check"
    /\ ev.outcome = "kept"
    /\ clients[ev.origin] = ev.pool
    /\ pools[ev.pool].st = "open"
    /\ Stats(pools[ev.pool]).connected = 1
    /\ Stats(pools[ev.pool]).free = 1
    /\ Stats(pools[ev.pool]).running = 0
    /\ Stats(pools[ev.pool]).size = 0

\* C19: the removal at the end of a destroyPool call removes only the pool
\* the call closed or destroyed: when the origin's entry is by then another
\* pool, built after the call started, the call leaves it in the mapping.
C19_RemovesOnlyOwnPool ==
    [][\A c \in CallIds :
         (calls[c].pc \in {"racing", "destroying"} /\ calls'[c].pc = "spent")
         => LET o == calls[c].origin
            IN  clients[o] # calls[c].pool => clients'[o] = clients[o]]_vars

\* C20: a reaper check evicts a pool only after a full idle window: no
\* request was dispatched to the origin in the 60 s the timer was pending.
C20_EvictsAfterIdleWindow ==
    (ev.kind = "check" /\ ev.outcome = "evicted") => ~ev.hit

(***************************************************************************)
(* Properties of overlapping destroyPool calls (checked under SpecCalls)   *)
(***************************************************************************)
\* C13: when the close() of destroyPool rejects (the pool is already
\* destroyed), the failure is swallowed, the call does not reject to its
\* caller, and the origin's entry is removed from the mapping.
C13_CloseFailureSwallowed ==
    (ev.kind = "destroyPool" /\ ev.outcome = "rejected")
    => (~ev.thrown /\ clients[ev.origin] = 0)

====
